---------------------------- MODULE Spec2Model ----------------------------
(***************************************************************************)
(* A model of beangulp_teller's src/teller.py: the fingerprint aggregator  *)
(* amounts_map, the fuzzy comparator TellerSimilarityComparator and the    *)
(* record transformer Importer.extract.                                    *)
(*                                                                         *)
(* Representation choices.                                                 *)
(*  - Strings that the code orders (account, fin_id, currency: the parts   *)
(*    of a fingerprint key, sorted by sorted()) are small integers whose   *)
(*    order stands for the strings' lexicographic order.                   *)
(*  - A Decimal amount is an integer number of minor units.  Quotients of  *)
(*    Decimals are exact fractions [n, d]; for amounts of up to nine       *)
(*    digits the 28-digit Decimal context decides every comparison of      *)
(*    __call__ the way the exact fraction does (a ratio other than 1.05    *)
(*    differs from it by far more than the rounding, and 20/21 inverts to  *)
(*    1.050000000000000000000000000).                                      *)
(*  - A date is its proleptic ordinal (date.toordinal()), the form in      *)
(*    which dates are compared and shifted by a timedelta of whole days.   *)
(*  - A Python dict is a TLA+ function whose DOMAIN is the dict's key set. *)
(***************************************************************************)
EXTENDS Integers, Sequences, FiniteSets, TLC

VARIABLES
    pc,              \* which operation of the scenario has run
    entry1, entry2,  \* the two Transaction directives handed to __call__
    max_date_delta,  \* TellerSimilarityComparator.max_date_delta
    result,          \* the value the operation returned
    heap,            \* live Transaction objects: id(entry) -> entry
    cache,           \* TellerSimilarityComparator.cache: id(entry) -> amounts
    last,            \* the latest __call__ of the session: arguments and result
    entry,           \* the Transaction handed to amounts_map
    amounts,         \* the mapping amounts_map returned
    j,               \* the parsed JSON file handed to Importer.extract
    entries          \* the list Importer.extract returned

vars == <<pc, entry1, entry2, max_date_delta, result, heap, cache, last,
          entry, amounts, j, entries>>

---------------------------------------------------------------------------
None == [kind |-> "None"]

MaxPostings == 2     \* bound: postings per Transaction
MaxRecords == 2      \* bound: transactions in the file handed to extract
NumIds == 2          \* bound: addresses a Transaction object can live at

Accounts == {1, 2}
USD == 1
MISSING == 0     \* stands for a currency that is not a str

---------------------------------------------------------------------------
(* Decimal arithmetic as exact fractions with a positive denominator. *)

Frac(n, d) == IF d < 0 THEN [n |-> -n, d |-> -d] ELSE [n |-> n, d |-> d]

\* an amount in minor units as a fraction
Ratio(x) == Frac(x, 1)
ZERO == Ratio(0)
ONE == Ratio(1)

DecDiv(a, b) == Frac(a.n * b.d, a.d * b.n)
DecSub(a, b) == Frac(a.n * b.d - b.n * a.d, a.d * b.d)
DecAbs(a) == IF a.n < 0 THEN Frac(-a.n, a.d) ELSE a
DecLess(a, b) == a.n * b.d < b.n * a.d
DecEq(a, b) == a.n * b.d = b.n * a.d

EpsilonHundredths == 5
EPSILON == Frac(EpsilonHundredths, 100)

---------------------------------------------------------------------------
(* amounts_map: the fingerprint of a Transaction. *)

Key(posting) ==
    <<posting.account, posting.meta["fin_id"], posting.units.currency>>

\* `not posting.meta`: None or the empty dict
MetaFalsy(meta) == meta = None \/ DOMAIN meta = {}

\* Variant of SkipPosting: the interpolation marker is not looked at.
SkipPostingKeepsInterpolated(posting) ==
    \/ MetaFalsy(posting.meta)
    \/ "fin_id" \notin DOMAIN posting.meta

SkipPosting(posting) ==
    \/ MetaFalsy(posting.meta)
    \/ "__automatic__" \in DOMAIN posting.meta
    \/ "fin_id" \notin DOMAIN posting.meta

\* isinstance(posting.units, Amount) and posting.units.currency, is a str
HasCurrency(posting) ==
    /\ posting.units # None
    /\ posting.units.currency # MISSING

\* amounts[key] += number on a defaultdict(D)
Accumulate(m, key, number) ==
    [k \in DOMAIN m \cup {key} |->
        IF k = key
        THEN (IF key \in DOMAIN m THEN m[key] ELSE 0) + number
        ELSE m[k]]

RECURSIVE AmountsLoop(_, _, _)
AmountsLoop(postings, i, m) ==
    IF i > Len(postings) THEN m
    ELSE LET posting == postings[i] IN
         IF SkipPosting(posting) THEN AmountsLoop(postings, i + 1, m)
         ELSE IF HasCurrency(posting)
              THEN AmountsLoop(postings, i + 1,
                               Accumulate(m, Key(posting), posting.units.number))
              ELSE AmountsLoop(postings, i + 1, m)

amounts_map(e) == AmountsLoop(e.postings, 1, <<>>)

---------------------------------------------------------------------------
(* TellerSimilarityComparator. *)

\* tuple comparison of two keys (account, fin_id, currency)
KeyLess(a, b) ==
    \/ a[1] < b[1]
    \/ a[1] = b[1] /\ a[2] < b[2]
    \/ a[1] = b[1] /\ a[2] = b[2] /\ a[3] < b[3]

RECURSIVE sorted(_)
sorted(S) ==
    IF S = {} THEN <<>>
    ELSE LET least == CHOOSE k \in S : \A o \in S : o = k \/ KeyLess(k, o)
         IN <<least>> \o sorted(S \ {least})

\* Variants of KeyStep, each with one slip of the kind the loop invites.
\* A key with exactly one zero side is passed over instead of ending the scan.
KeyStepContinue(number1, number2) ==
    IF DecEq(number1, ZERO) /\ DecEq(number2, ZERO) THEN "break"
    ELSE IF DecEq(number1, ZERO) \/ DecEq(number2, ZERO) THEN "next"
    ELSE LET diff == DecAbs(DecDiv(number1, number2))
             ratio == IF DecLess(diff, ONE) THEN DecDiv(ONE, diff) ELSE diff
         IN IF DecLess(DecSub(ratio, ONE), EPSILON) THEN "break" ELSE "next"

\* Two zero amounts are taken for a singular ratio.
KeyStepZeroMiss(number1, number2) ==
    IF DecEq(number1, ZERO) \/ DecEq(number2, ZERO) THEN "return False"
    ELSE LET diff == DecAbs(DecDiv(number1, number2))
             ratio == IF DecLess(diff, ONE) THEN DecDiv(ONE, diff) ELSE diff
         IN IF DecLess(DecSub(ratio, ONE), EPSILON) THEN "break" ELSE "next"

\* The ratio is not inverted when it is below one.
KeyStepNoInvert(number1, number2) ==
    IF DecEq(number1, ZERO) /\ DecEq(number2, ZERO) THEN "break"
    ELSE IF DecEq(number1, ZERO) \/ DecEq(number2, ZERO) THEN "return False"
    ELSE LET diff == DecAbs(DecDiv(number1, number2))
         IN IF DecLess(DecSub(diff, ONE), EPSILON) THEN "break" ELSE "next"

\* The tolerance test admits the bound itself.
KeyStepInclusive(number1, number2) ==
    IF DecEq(number1, ZERO) /\ DecEq(number2, ZERO) THEN "break"
    ELSE IF DecEq(number1, ZERO) \/ DecEq(number2, ZERO) THEN "return False"
    ELSE LET diff == DecAbs(DecDiv(number1, number2))
             ratio == IF DecLess(diff, ONE) THEN DecDiv(ONE, diff) ELSE diff
         IN IF ~DecLess(EPSILON, DecSub(ratio, ONE)) THEN "break" ELSE "next"

\* the body of the for loop over one key: "break", "return False" or "next"
KeyStep(number1, number2) ==
    IF DecEq(number1, ZERO) /\ DecEq(number2, ZERO) THEN "break"
    ELSE LET diff == DecAbs(IF ~DecEq(number2, ZERO)
                            THEN DecDiv(number1, number2)
                            ELSE DecDiv(number2, number1))
         IN IF DecEq(diff, ZERO) THEN "return False"
            ELSE LET ratio == IF DecLess(diff, ONE) THEN DecDiv(ONE, diff)
                              ELSE diff
                 IN IF DecLess(DecSub(ratio, ONE), EPSILON) THEN "break"
                    ELSE "next"

RECURSIVE ScanKeys(_, _, _, _)
ScanKeys(keys, i, amounts1, amounts2) ==
    IF i > Len(keys) THEN FALSE          \* the for loop's else branch
    ELSE LET step == KeyStep(Ratio(amounts1[keys[i]]), Ratio(amounts2[keys[i]]))
         IN IF step = "break" THEN TRUE
            ELSE IF step = "return False" THEN FALSE
            ELSE ScanKeys(keys, i + 1, amounts1, amounts2)

CompareAmounts(amounts1, amounts2) ==
    LET common_keys == DOMAIN amounts1 \cap DOMAIN amounts2
    IN ScanKeys(sorted(common_keys), 1, amounts1, amounts2)

\* Variant of DateGate: a difference equal to the maximum is refused too.
DateGateInclusive(mdd, e1, e2) ==
    /\ mdd # None
    /\ LET delta == IF e1.date > e2.date THEN e1.date - e2.date
                    ELSE e2.date - e1.date
       IN delta >= mdd.days

\* the date check: TRUE when __call__ returns False for the dates alone
DateGate(mdd, e1, e2) ==
    /\ mdd # None
    /\ LET delta == IF e1.date > e2.date THEN e1.date - e2.date
                    ELSE e2.date - e1.date
       IN delta > mdd.days

\* self.cache[id(e)], filled from amounts_map(e) on a KeyError
CachePut(c, h, id) ==
    IF id \in DOMAIN c THEN c
    ELSE [k \in DOMAIN c \cup {id} |-> IF k = id THEN amounts_map(h[id]) ELSE c[k]]

\* __call__ on the objects at id1 and id2: the boolean and the cache afterwards
Call(c, mdd, h, id1, id2) ==
    IF DateGate(mdd, h[id1], h[id2])
    THEN [result |-> FALSE, cache |-> c]
    ELSE LET c1 == CachePut(c, h, id1)
             c2 == CachePut(c1, h, id2)
         IN [result |-> CompareAmounts(c2[id1], c2[id2]), cache |-> c2]

\* comparator(e1, e2) on a freshly constructed comparator; the two
\* arguments are two objects, whatever their contents
Fresh(mdd, e1, e2) ==
    Call(<<>>, mdd, <<e1, e2>>, 1, 2).result

---------------------------------------------------------------------------
(* Inputs of the comparator scenarios. *)

Tagged(account, number) ==
    [account |-> account,
     units |-> [number |-> number, currency |-> USD],
     meta |-> [k \in {"fin_id"} |-> 1]]

\* 20 : 21 is the ratio 1.05 exactly, 21 : 22 is within the tolerance
TaggedPostings ==
    {Tagged(1, 0), Tagged(1, 20), Tagged(1, -21), Tagged(1, 22),
     Tagged(2, 0), Tagged(2, 20)}

SeqsUpTo(S, n) == UNION {[1..k -> S] : k \in 0..n}

Dates == {0, 1}
DeltaDays == {0, 1}

CmpEntries ==
    {[date |-> d, postings |-> ps] :
        d \in Dates, ps \in SeqsUpTo(TaggedPostings, MaxPostings)}

Deltas == {None} \cup {[days |-> n] : n \in DeltaDays}

InitCmp ==
    /\ pc = "cmp"
    /\ entry1 \in CmpEntries
    /\ entry2 \in CmpEntries
    /\ max_date_delta \in Deltas
    /\ result = FALSE
    /\ heap = <<>> /\ cache = <<>> /\ last = None
    /\ entry = None /\ amounts = None /\ j = None /\ entries = None

Compare ==
    /\ pc = "cmp"
    /\ result' = Fresh(max_date_delta, entry1, entry2)
    /\ pc' = "compared"
    /\ UNCHANGED <<entry1, entry2, max_date_delta, heap, cache, last,
                   entry, amounts, j, entries>>

NextCmp == Compare

SpecCmp == InitCmp /\ [][NextCmp]_vars

---------------------------------------------------------------------------
(* A session of one comparator: the caller creates and drops Transaction   *)
(* objects and compares live ones.  id(entry) is the object's address: an  *)
(* address is unique among live objects only, so a new object may get the  *)
(* address of a dropped one, while self.cache keeps what it stored.        *)

Ids == 1..NumIds

SessionEntries ==
    {[date |-> d, postings |-> <<Tagged(1, n)>>] : d \in Dates, n \in {20, 22}}

Init ==
    /\ pc = "session"
    /\ max_date_delta \in Deltas
    /\ heap = <<>>
    /\ cache = <<>>
    /\ last = None
    /\ entry1 = None /\ entry2 = None /\ result = FALSE
    /\ entry = None /\ amounts = None /\ j = None /\ entries = None

\* the caller builds a Transaction; the allocator picks any free address
NewEntry(id, e) ==
    /\ id \notin DOMAIN heap
    /\ heap' = [k \in DOMAIN heap \cup {id} |-> IF k = id THEN e ELSE heap[k]]
    /\ UNCHANGED <<pc, entry1, entry2, max_date_delta, result, cache, last,
                   entry, amounts, j, entries>>

\* the caller drops its last reference; the cache holds ids, not entries
Discard(id) ==
    /\ id \in DOMAIN heap
    /\ heap' = [k \in DOMAIN heap \ {id} |-> heap[k]]
    /\ UNCHANGED <<pc, entry1, entry2, max_date_delta, result, cache, last,
                   entry, amounts, j, entries>>

\* comparator(heap[id1], heap[id2])
CallEntries(id1, id2) ==
    /\ id1 \in DOMAIN heap /\ id2 \in DOMAIN heap
    /\ LET r == Call(cache, max_date_delta, heap, id1, id2)
       IN /\ cache' = r.cache
          /\ last' = [entry1 |-> heap[id1], entry2 |-> heap[id2],
                       result |-> r.result]
    /\ UNCHANGED <<pc, entry1, entry2, max_date_delta, result, heap,
                   entry, amounts, j, entries>>

Next ==
    \/ \E id \in Ids, e \in SessionEntries : NewEntry(id, e)
    \/ \E id \in Ids : Discard(id)
    \/ \E id1 \in Ids, id2 \in Ids : CallEntries(id1, id2)

Spec == Init /\ [][Next]_vars

---------------------------------------------------------------------------
(* amounts_map on its own: one Transaction with postings of every shape.   *)

EmptyDict == [k \in {} |-> 0]

Metas ==
    {None, EmptyDict,
     [k \in {"fin_id"} |-> 1],
     [k \in {"fin_id"} |-> 2],
     [k \in {"fin_id", "__automatic__"} |-> 1],
     [k \in {"__automatic__"} |-> 1],
     [k \in {"lineno"} |-> 1]}

Units ==
    {None, [number |-> 20, currency |-> MISSING]}
        \cup {[number |-> n, currency |-> USD] : n \in {0, 20, -21}}

AggPostings ==
    {[account |-> a, units |-> u, meta |-> m] :
        a \in Accounts, u \in Units, m \in Metas}

InitAgg ==
    /\ pc = "agg"
    /\ entry \in {[date |-> 0, postings |-> ps] :
                    ps \in SeqsUpTo(AggPostings, MaxPostings)}
    /\ amounts = <<>>
    /\ entry1 = None /\ entry2 = None /\ max_date_delta = None
    /\ result = FALSE /\ heap = <<>> /\ cache = <<>> /\ last = None
    /\ j = None /\ entries = None

Aggregate ==
    /\ pc = "agg"
    /\ amounts' = amounts_map(entry)
    /\ pc' = "aggregated"
    /\ UNCHANGED <<entry1, entry2, max_date_delta, result, heap, cache, last,
                   entry, j, entries>>

NextAgg == Aggregate

SpecAgg == InitAgg /\ [][NextAgg]_vars

---------------------------------------------------------------------------
(* Importer.extract.  An amount in the JSON file is a text, here a sign    *)
(* and a number of minor units; D reads it.                                *)

DateMin == 1         \* date.min.toordinal()

D(text) == IF text.minus THEN -text.digits ELSE text.digits

\* parse(transaction['date']).date(): the date text stands for its day
parse(text) == text.day

Neg(units) == [number |-> -units.number, currency |-> units.currency]

\* the payee of one transaction
Merch(transaction) ==
    IF "counter_part" \in DOMAIN transaction.details
    THEN transaction.details.counterparty.name
    ELSE transaction.description

\* one pass of the loop body: the Transaction built for j.transactions[index]
Txn(self, filepath, file, index) ==
    LET transaction == file.transactions[index + 1]
        units == [number |-> D(transaction.amount),
                  currency |-> file.accounts.currency]
        leg1 == [account |-> self.account_name, units |-> Neg(units),
                 meta |-> [k \in {"fin_id"} |-> transaction.id]]
    IN [kind |-> "Transaction",
        meta |-> [filename |-> filepath, lineno |-> index],
        date |-> parse(transaction.date),
        flag |-> "*",
        payee |-> Merch(transaction),
        narration |-> transaction.description,
        postings |-> <<leg1>>]

\* Variant of LatestDate: the date of the last transaction, not the latest.
RECURSIVE LatestDateOfLast(_, _, _)
LatestDateOfLast(transactions, i, latest_date) ==
    IF i > Len(transactions) THEN latest_date
    ELSE LatestDateOfLast(transactions, i + 1, parse(transactions[i].date))

\* latest_date after the loop has seen transactions i..
RECURSIVE LatestDate(_, _, _)
LatestDate(transactions, i, latest_date) ==
    IF i > Len(transactions) THEN latest_date
    ELSE LET t_date == parse(transactions[i].date)
         IN LatestDate(transactions, i + 1,
                       IF t_date > latest_date THEN t_date ELSE latest_date)

\* Variant of BalanceAmount: the balance is negated for the tag "liability".
BalanceAmountLiability(file) ==
    LET amt == [number |-> D(file.balances.ledger),
                currency |-> file.accounts.currency]
    IN IF file.accounts.type = "liability" THEN Neg(amt) ELSE amt

\* the amount of the final balance check
BalanceAmount(file) ==
    LET amt == [number |-> D(file.balances.ledger),
                currency |-> file.accounts.currency]
    IN IF file.accounts.type = "credit" THEN Neg(amt) ELSE amt

extract(self, filepath, file) ==
    LET n == Len(file.transactions)
        txns == [i \in 1..n |-> Txn(self, filepath, file, i - 1)]
        latest_date == LatestDate(file.transactions, 1, DateMin)
    IN IF Len(txns) > 0
       THEN Append(txns,
                   [kind |-> "Balance",
                    meta |-> [filename |-> filepath, lineno |-> 0],
                    date |-> latest_date + 1,
                    account |-> self.account_name,
                    amount |-> BalanceAmount(file)])
       ELSE txns

importer == [account_name |-> "Assets:Current:CitiSampleBank",
             account_id |-> "acc_os1rm9h3k65vdrb176000"]

AmountTexts == {[minus |-> TRUE, digits |-> 500], [minus |-> FALSE, digits |-> 700]}
BalanceTexts == {[minus |-> FALSE, digits |-> 12000], [minus |-> TRUE, digits |-> 3550],
                 [minus |-> FALSE, digits |-> 0]}
DateTexts == {[day |-> d] : d \in {10, 11, 12}}
Details == {[category |-> "general"],
            [category |-> "general", counterparty |-> [name |-> "Shop"]]}
AcctTypes == {"credit", "depository", "liability", "asset"}

Records ==
    {[id |-> i, date |-> d, description |-> "CARD PAYMENT", details |-> x,
      amount |-> a] :
        i \in {1, 2}, d \in DateTexts, x \in Details, a \in AmountTexts}

InitExtract ==
    /\ pc = "extract"
    /\ j \in {[accounts |-> [id |-> importer.account_id, currency |-> USD, type |-> t],
                 balances |-> [ledger |-> b],
                 transactions |-> ts] :
                    t \in AcctTypes, b \in BalanceTexts,
                    ts \in SeqsUpTo(Records, MaxRecords)}
    /\ entries = <<>>
    /\ entry1 = None /\ entry2 = None /\ max_date_delta = None
    /\ result = FALSE /\ heap = <<>> /\ cache = <<>> /\ last = None
    /\ entry = None /\ amounts = None

Extract ==
    /\ pc = "extract"
    /\ entries' = extract(importer, "teller.json", j)
    /\ pc' = "extracted"
    /\ UNCHANGED <<entry1, entry2, max_date_delta, result, heap, cache, last,
                   entry, amounts, j>>

NextExtract == Extract

SpecExtract == InitExtract /\ [][NextExtract]_vars

---------------------------------------------------------------------------
(* Properties of __call__, stated on the state after Compare.  a1 and a2   *)
(* are the two fingerprints, common their common keys.                     *)

Abs(x) == IF x < 0 THEN -x ELSE x
Larger(x, y) == IF Abs(x) > Abs(y) THEN Abs(x) ELSE Abs(y)
Smaller(x, y) == IF Abs(x) > Abs(y) THEN Abs(y) ELSE Abs(x)

BothZero(x, y) == x = 0 /\ y = 0
OneZero(x, y) == (x = 0) # (y = 0)
\* both nonzero and larger / smaller - 1 < 0.05
Within(x, y) ==
    /\ x # 0 /\ y # 0
    /\ 100 * (Larger(x, y) - Smaller(x, y)) < 5 * Smaller(x, y)
\* neither a match nor a singular ratio: two nonzero amounts too far apart
Apart(x, y) == ~Within(x, y) /\ ~BothZero(x, y) /\ ~OneZero(x, y)
Before(common, k) == {o \in common : KeyLess(o, k)}

DateDiff == Abs(entry1.date - entry2.date)
PassesGate == max_date_delta = None \/ DateDiff <= max_date_delta.days
Compared == pc = "compared"

\* C1 as claimed: past the date gate, a common key within the tolerance
\* makes the result true whatever the other common keys hold, a key with
\* exactly one zero side being only a miss.
C1_AnyKeyWithinSuffices ==
    (Compared /\ PassesGate) =>
        LET a1 == amounts_map(entry1)
            a2 == amounts_map(entry2)
        IN (\E k \in DOMAIN a1 \cap DOMAIN a2 : Within(a1[k], a2[k]))
           => result = TRUE

\* C1 as amended: past the date gate, a common key within the tolerance
\* makes the result true when no common key sorting before it has exactly
\* one zero side; a key with exactly one zero side that the scan reaches
\* (every key before it has two nonzero amounts too far apart) makes the
\* result false at once; and the result is false when no common key passed.
C1_FirstDecidingKey ==
    (Compared /\ PassesGate) =>
        LET a1 == amounts_map(entry1)
            a2 == amounts_map(entry2)
            common == DOMAIN a1 \cap DOMAIN a2
        IN /\ (\E k \in common :
                  /\ Within(a1[k], a2[k])
                  /\ \A o \in Before(common, k) : ~OneZero(a1[o], a2[o]))
              => result = TRUE
           /\ (\E k \in common :
                  /\ OneZero(a1[k], a2[k])
                  /\ \A o \in Before(common, k) : Apart(a1[o], a2[o]))
              => result = FALSE
           /\ (\A k \in common :
                  ~Within(a1[k], a2[k]) /\ ~BothZero(a1[k], a2[k]))
              => result = FALSE

\* C1 witness: a key within the tolerance decided the call although a later
\* common key has exactly one zero side.
C1_Witness ==
    /\ Compared /\ PassesGate /\ result = TRUE
    /\ LET a1 == amounts_map(entry1)
           a2 == amounts_map(entry2)
           common == DOMAIN a1 \cap DOMAIN a2
       IN \E k \in common :
            /\ Within(a1[k], a2[k]) /\ a1[k] # a2[k]
            /\ \E o \in common : KeyLess(k, o) /\ OneZero(a1[o], a2[o])

\* C2 as claimed: past the date gate, a common key with zero on both sides
\* makes the result true regardless of every other common key.
C2_DoubleZeroAlwaysMatches ==
    (Compared /\ PassesGate) =>
        LET a1 == amounts_map(entry1)
            a2 == amounts_map(entry2)
        IN (\E k \in DOMAIN a1 \cap DOMAIN a2 : BothZero(a1[k], a2[k]))
           => result = TRUE

\* C2 as amended: past the date gate, a common key with zero on both sides
\* makes the result true when no common key sorting before it has exactly
\* one zero side.
C2_DoubleZeroUnlessSingularBefore ==
    (Compared /\ PassesGate) =>
        LET a1 == amounts_map(entry1)
            a2 == amounts_map(entry2)
            common == DOMAIN a1 \cap DOMAIN a2
        IN (\E k \in common :
              /\ BothZero(a1[k], a2[k])
              /\ \A o \in Before(common, k) : ~OneZero(a1[o], a2[o]))
           => result = TRUE

\* C2 witness: a double-zero key matched after an earlier key had missed
\* the tolerance with two nonzero amounts.
C2_Witness ==
    /\ Compared /\ PassesGate /\ result = TRUE
    /\ LET a1 == amounts_map(entry1)
           a2 == amounts_map(entry2)
           common == DOMAIN a1 \cap DOMAIN a2
       IN \E k \in common :
            /\ BothZero(a1[k], a2[k])
            /\ \E o \in Before(common, k) : Apart(a1[o], a2[o])

\* C3: comparator(a, b) = comparator(b, a) for every pair of entries and
\* every max_date_delta.
C3_Symmetry ==
    Compared => result = Fresh(max_date_delta, entry2, entry1)

\* C3 witness: a match between different entries with two common keys, one
\* of them holding amounts of opposite sign, under a configured date delta.
C3_Witness ==
    /\ Compared /\ result = TRUE
    /\ entry1.date > entry2.date /\ max_date_delta # None
    /\ LET a1 == amounts_map(entry1)
           a2 == amounts_map(entry2)
           common == DOMAIN a1 \cap DOMAIN a2
       IN /\ Cardinality(common) >= 2
          /\ \E k \in common : a1[k] > 0 /\ a2[k] < 0

\* C5: with max_date_delta configured and the dates further apart than it,
\* the result is false whatever the postings; a difference equal to
\* max_date_delta leaves the result to the amounts.
C5_DateGate ==
    (Compared /\ max_date_delta # None) =>
        /\ DateDiff > max_date_delta.days => result = FALSE
        /\ DateDiff = max_date_delta.days
            => result = Fresh(None, entry1, entry2)

\* C5 witness: the gate refused two entries with the same postings and a
\* double-zero common key.
C5_Witness ==
    /\ Compared /\ max_date_delta # None /\ DateDiff > max_date_delta.days
    /\ entry1.postings = entry2.postings
    /\ LET a1 == amounts_map(entry1)
       IN \E k \in DOMAIN a1 : a1[k] = 0
    /\ result = FALSE

\* C6: past the date gate, with exactly one common key and both amounts
\* nonzero, the result is true iff larger / smaller - 1 < 0.05.
C6_ToleranceBoundary ==
    (Compared /\ PassesGate) =>
        LET a1 == amounts_map(entry1)
            a2 == amounts_map(entry2)
            common == DOMAIN a1 \cap DOMAIN a2
        IN (Cardinality(common) = 1 /\ \A k \in common : a1[k] # 0 /\ a2[k] # 0)
           => (result = TRUE <=>
                 \A k \in common :
                    100 * (Larger(a1[k], a2[k]) - Smaller(a1[k], a2[k]))
                        < 5 * Smaller(a1[k], a2[k]))

\* C6 witness: amounts in the ratio 1.05 exactly were judged not similar.
C6_Witness ==
    /\ Compared /\ PassesGate /\ result = FALSE
    /\ LET a1 == amounts_map(entry1)
           a2 == amounts_map(entry2)
           common == DOMAIN a1 \cap DOMAIN a2
       IN /\ Cardinality(common) = 1
          /\ \A k \in common :
                a1[k] # 0 /\ 20 * Larger(a1[k], a2[k]) = 21 * Smaller(a1[k], a2[k])

---------------------------------------------------------------------------
(* Properties of the comparator's cache, stated on the session. *)

\* C4: every call on a used comparator returns what a freshly constructed
\* comparator with the same max_date_delta returns for the same two entries.
C4_CacheTransparent ==
    last # None =>
        last.result = Fresh(max_date_delta, last.entry1, last.entry2)

---------------------------------------------------------------------------
(* Properties of amounts_map, stated on the state after Aggregate. *)

\* a posting that is sourced: non-empty metadata with a fin_id and without
\* the interpolation marker, and units with a well-formed currency
Sourced(p) ==
    /\ p.meta # None
    /\ DOMAIN p.meta # {}
    /\ "fin_id" \in DOMAIN p.meta
    /\ "__automatic__" \notin DOMAIN p.meta
    /\ p.units # None
    /\ p.units.currency # MISSING

Triple(p) == <<p.account, p.meta.fin_id, p.units.currency>>

RECURSIVE SumNumbers(_, _)
SumNumbers(ps, I) ==
    IF I = {} THEN 0
    ELSE LET i == CHOOSE x \in I : TRUE
         IN ps[i].units.number + SumNumbers(ps, I \ {i})

---------------------------------------------------------------------------
(* Properties of Importer.extract, stated on the state after Extract. *)

Extracted == pc = "extracted"
Supplied == D(j.balances.ledger)

\* C8 as claimed: for a non-empty batch the trailing balance amount is the
\* negated ledger balance for the tag "liability" and the ledger balance
\* itself for the tag "asset".
C8_BalanceSignByLiabilityTag ==
    (Extracted /\ Len(j.transactions) > 0) =>
        LET balance == entries[Len(entries)]
        IN /\ j.accounts.type = "liability" => balance.amount.number = -Supplied
           /\ j.accounts.type = "asset" => balance.amount.number = Supplied

\* C8 as amended: for a non-empty batch the trailing balance amount is the
\* negated ledger balance for the tag "credit" and the ledger balance
\* itself for every other tag, "asset" and "liability" included.
C8_BalanceSignByCreditTag ==
    (Extracted /\ Len(j.transactions) > 0) =>
        LET balance == entries[Len(entries)]
        IN /\ balance.kind = "Balance"
           /\ j.accounts.type = "credit" => balance.amount.number = -Supplied
           /\ j.accounts.type # "credit" => balance.amount.number = Supplied

\* C8 witness: a credit account's nonzero ledger balance was negated.
C8_Witness ==
    /\ Extracted /\ Len(j.transactions) > 0
    /\ j.accounts.type = "credit" /\ Supplied > 0
    /\ entries[Len(entries)].amount.number = -Supplied

RECURSIVE MaxDay(_)
MaxDay(S) ==
    LET d == CHOOSE x \in S : TRUE
    IN IF S = {d} THEN d
       ELSE LET m == MaxDay(S \ {d}) IN IF d > m THEN d ELSE m

\* C9: extract returns one Transaction per record, in input order, and for
\* a non-empty batch one Balance, last, dated the day after the latest
\* transaction date; for an empty batch it returns nothing.
C9_Shape ==
    Extracted =>
        LET ts == j.transactions
            n == Len(ts)
        IN IF n = 0 THEN entries = <<>>
           ELSE /\ Len(entries) = n + 1
                /\ \A i \in 1..n :
                      /\ entries[i].kind = "Transaction"
                      /\ entries[i].date = ts[i].date.day
                      /\ entries[i].postings[1].meta.fin_id = ts[i].id
                      /\ entries[i].postings[1].units.number = -D(ts[i].amount)
                      /\ entries[i].date < entries[n + 1].date
                /\ entries[n + 1].kind = "Balance"
                /\ entries[n + 1].date = MaxDay({ts[i].date.day : i \in 1..n}) + 1

\* C9 witness: a batch whose latest transaction comes first.
C9_Witness ==
    /\ Extracted /\ Len(j.transactions) = 2
    /\ j.transactions[1].date.day > j.transactions[2].date.day
    /\ Len(entries) = 3
    /\ entries[3].date = j.transactions[1].date.day + 1

\* C10: the payee of every entry is the counterparty name when the record's
\* details hold one, and the description otherwise.
C10_Payee ==
    Extracted =>
        \A i \in 1..Len(j.transactions) :
            LET t == j.transactions[i]
            IN entries[i].payee =
                 IF "counterparty" \in DOMAIN t.details
                 THEN t.details.counterparty.name
                 ELSE t.description

=============================================================================
